---- MODULE Spec2Model ----
(***************************************************************************)
(* A model of the English practice application (src/js/utils.js,           *)
(* src/js/tts.js).                                                         *)
(*                                                                         *)
(* Spec, LiveSpec, RepeatedSpec: API.splitIntoParagraphs (lines 351-384),  *)
(*     the paragraph chunker.                                              *)
(* AppSpec, AppLiveSpec: App.processArticle and API.processArticle, the    *)
(*     processing of an article against the backend.                       *)
(* TtsSpec: App.speak, TTS.speak and TTS.stop, the speak buttons.          *)
(* FetchSpec: Utils.fetchArticleFromURL, the retrieval through proxies.    *)
(* DebounceSpec: Utils.debounce, a debounced function and its timers.      *)
(*                                                                         *)
(* A JavaScript string is modelled as a sequence of one-character strings. *)
(* The article is split at runs of two or more LF characters, each piece   *)
(* is trimmed, empty pieces are dropped, and the remaining natural         *)
(* paragraphs are merged left to right into chunks.                        *)
(***************************************************************************)
EXTENDS Integers, Sequences, FiniteSets

VARIABLES
    article,            \* the argument of splitIntoParagraphs
    pc,                 \* position in the function body
    naturalParagraphs,  \* const naturalParagraphs (line 352)
    idx,                \* position of the for-of iterator (line 360), 1-based
    result,             \* const result = [] (line 357)
    currentChunk,       \* let currentChunk = '' (line 358)
    returned,           \* the returned array (line 383)
    calls,              \* the completed invocations, <<argument, returned array>>
    isProcessing,       \* App.state.isProcessing
    currentResults,     \* App.state.currentResults
    view,               \* the state shown by App.showState
    btnDisabled,        \* App.elements.processBtn.disabled
    lastClick,          \* what the last click on process or retry did
    articleInput,       \* App.elements.articleInput.value
    fetchUrlBtnDisabled, \* App.elements.fetchUrlBtn.disabled
    runs,               \* the invocations of API.processArticle
    sent,               \* the requests sent to the backend, in order
    utterances,         \* the SpeechSynthesisUtterance objects created
    currentUtterance,   \* TTS.currentUtterance, 0 for null
    speakingButtons,    \* the speak buttons that have the class 'speaking'
    fetchPc,            \* where fetchArticleFromURL stands
    attempts,           \* the proxies it has requested, with what came of it
    fetchResult,        \* what it returned
    fetched,            \* the outcomes of its earlier invocations
    timers,             \* the timers that the debounced function has set
    timeoutId,          \* timeoutId of the closure, 0 for undefined
    invoked             \* the invocations of fn, in order

\* The invocation of splitIntoParagraphs and the record of completed ones.
chunkVars ==
    <<article, pc, naturalParagraphs, idx, result, currentChunk, returned, calls>>

\* The fields of App and what it shows.
appVars ==
    <<isProcessing, currentResults, view, btnDisabled, lastClick,
      articleInput, fetchUrlBtnDisabled>>

\* The invocations of API.processArticle and their requests.
apiVars == <<runs, sent>>

\* TTS and the speak buttons.
ttsVars == <<utterances, currentUtterance, speakingButtons>>

\* The invocations of Utils.fetchArticleFromURL.
fetchVars == <<fetchPc, attempts, fetchResult, fetched>>

\* A function returned by Utils.debounce, and the timers it has set.
debounceVars == <<timers, timeoutId, invoked>>

\* The state outside an invocation of splitIntoParagraphs.
outside == <<appVars, apiVars, ttsVars, fetchVars, debounceVars>>

\* The state that the processing of an article leaves alone.
notApp == <<chunkVars, ttsVars, fetchVars, debounceVars>>

\* The state that the speak buttons leave alone.
notTts == <<chunkVars, appVars, apiVars, fetchVars, debounceVars>>

\* The state that fetchArticleFromURL leaves alone.
notFetch == <<chunkVars, appVars, apiVars, ttsVars, debounceVars>>

\* The state that a debounced function leaves alone.
notDebounce == <<chunkVars, appVars, apiVars, ttsVars, fetchVars>>

vars == <<chunkVars, outside>>

-----------------------------------------------------------------------------
(* Bounds of the model. *)

\* Every string over Alphabet of at most MaxLen characters is an input.
MaxLen == 6

\* Every string over a letter, the line feed, the form feed and the no-break
\* space of at most SpaceLen characters is an input.
SpaceLen == 3

\* Long inputs hold at most MaxParas blocks of words.
MaxParas == 3

\* At most MaxCalls invocations follow one another.
MaxCalls == 3

\* The inputs of the specification with fairness include every string over
\* Alphabet of at most LiveLen characters.
LiveLen == 4

\* At most MaxRuns article-processing runs are started, and at most
\* MaxUrlFetches retrievals of an article from a URL.
MaxRuns == 2
MaxUrlFetches == 1

\* At most MaxUtterances utterances are created, on NumButtons speak buttons.
MaxUtterances == 4
NumButtons == 2

\* fetchArticleFromURL is invoked at most MaxFetches times, with URLs of at
\* most MaxUrlLen code units.
MaxFetches == 2
MaxUrlLen == 2

\* The debounced function is made with a delay of Delay units of time and is
\* called at most MaxWrapperCalls times; the article input is edited at most
\* MaxEdits times.
Delay == 2
MaxWrapperCalls == 3
MaxEdits == 1

(* Program constants. *)

\* if (combinedWordCount <= 150)
MaxWords == 150

\* if (currentChunk.split(/\s+/).length >= 50)
MinWords == 50

\* The number of proxies in the list of fetchArticleFromURL, the number of
\* selectors it tries, and the length that the text of an element must exceed.
NumProxies == 2
NumSelectors == 8
MinContentLength == 100

-----------------------------------------------------------------------------
(* The application before any event. *)

\* null and undefined.
Null == [null |-> TRUE]
Undefined == [undefined |-> TRUE]

\* A JSON object without the fields the page reads.
EmptyObject == [empty |-> TRUE]

\* An invocation of API.processArticle that has not been made.
NoRun ==
    [st |-> "unused", article |-> <<>>, summary |-> Undefined,
     paragraphs |-> <<>>, processed |-> <<>>]

\* App.state as declared (lines 393-396), the page as loaded.
AppIdle ==
    /\ isProcessing = FALSE
    /\ currentResults = Null
    /\ view = "empty"
    /\ btnDisabled = FALSE
    /\ lastClick = "none"
    /\ articleInput = <<>>
    /\ fetchUrlBtnDisabled = FALSE
    /\ runs = [r \in 1..MaxRuns |-> NoRun]
    /\ sent = <<>>

\* An utterance that has not been created.
NoUtterance == [st |-> "unused", button |-> 0]

\* TTS as declared (tts.js, line 8), no button with the class 'speaking'.
TtsIdle ==
    /\ utterances = [u \in 1..MaxUtterances |-> NoUtterance]
    /\ currentUtterance = 0
    /\ speakingButtons = {}

\* fetchArticleFromURL not invoked.
FetchIdle ==
    /\ fetchPc = "idle"
    /\ attempts = <<>>
    /\ fetchResult = <<>>
    /\ fetched = <<>>

\* Utils.debounce(fn, delay) has returned: no timer set (line 13).
DebounceIdle ==
    /\ timers = <<>>
    /\ timeoutId = 0
    /\ invoked = <<>>

\* The state outside when nothing but splitIntoParagraphs runs.
OutsideIdle == AppIdle /\ TtsIdle /\ FetchIdle /\ DebounceIdle

\* No invocation of splitIntoParagraphs observed step by step.
ChunkIdle ==
    /\ article = <<>>
    /\ pc = "idle"
    /\ naturalParagraphs = <<>>
    /\ idx = 1
    /\ result = <<>>
    /\ currentChunk = <<>>
    /\ returned = <<>>
    /\ calls = <<>>

\* The page as loaded.
PageLoaded == ChunkIdle /\ OutsideIdle

-----------------------------------------------------------------------------
(* Characters. *)

LF == "\n"
CR == "\r"
SP == " "
TAB == "\t"
FF == "\f"

\* The line tabulation U+000B, the no-break space U+00A0, the zero width
\* no-break space U+FEFF and the ogham space mark U+1680.
VT == ""
NBSP == " "
ZWNBSP == "﻿"
OGHAM == " "

\* The characters short inputs are drawn from.
Alphabet == {"a", SP, LF, CR}

\* The characters matched by \s, and stripped by String.prototype.trim: the
\* white space and the line terminators of ECMAScript. The others of them,
\* U+2000 to U+200A, U+2028, U+2029, U+202F, U+205F and U+3000, are
\* characters that a string of this module cannot hold.
IsWhitespace(c) == c \in {SP, LF, CR, TAB, FF, VT, NBSP, ZWNBSP, OGHAM}

-----------------------------------------------------------------------------
(* String operations. *)

Min(S) == CHOOSE x \in S : \A y \in S : x <= y

\* Last index of the run of LF characters that starts at index i of s.
RECURSIVE RunEnd(_, _)
RunEnd(s, i) == IF i < Len(s) /\ s[i + 1] = LF THEN RunEnd(s, i + 1) ELSE i

\* s.split(/\n\n+/) applied to the part of s that starts at index from: the
\* pieces between the maximal runs of two or more LF characters.
RECURSIVE SplitFrom(_, _)
SplitFrom(s, from) ==
    LET starts == {i \in from..(Len(s) - 1) : s[i] = LF /\ s[i + 1] = LF}
    IN  IF starts = {}
        THEN <<SubSeq(s, from, Len(s))>>
        ELSE LET i == Min(starts)
             IN  <<SubSeq(s, from, i - 1)>> \o SplitFrom(s, RunEnd(s, i) + 1)

\* article.split(/\n\n+/)
SplitBlankLines(s) == SplitFrom(s, 1)

\* Index of the first character at or after i that is not whitespace
\* (Len(s) + 1 when there is none).
RECURSIVE SkipLeading(_, _)
SkipLeading(s, i) ==
    IF i <= Len(s) /\ IsWhitespace(s[i]) THEN SkipLeading(s, i + 1) ELSE i

\* Index of the last character at or before i that is not whitespace
\* (0 when there is none).
RECURSIVE SkipTrailing(_, _)
SkipTrailing(s, i) ==
    IF i >= 1 /\ IsWhitespace(s[i]) THEN SkipTrailing(s, i - 1) ELSE i

\* p.trim()
Trim(s) == SubSeq(s, SkipLeading(s, 1), SkipTrailing(s, Len(s)))

\* s.split(/\s+/).length: the pieces between the maximal runs of whitespace,
\* one more than the number of runs (a run at either end of s leaves an
\* empty piece there, and the empty string gives the one piece '').
WordCount(s) ==
    Cardinality({i \in 1..Len(s) :
                    IsWhitespace(s[i]) /\ (i = 1 \/ ~IsWhitespace(s[i - 1]))}) + 1

\* .map(p => p.trim())
MapTrim(ps) == [k \in 1..Len(ps) |-> Trim(ps[k])]

\* .filter(p => p.length > 0)
FilterNonEmpty(ps) == SelectSeq(ps, LAMBDA p : Len(p) > 0)

\* Lines 352-355.
NaturalParagraphs(s) == FilterNonEmpty(MapTrim(SplitBlankLines(s)))

\* Variant of AppendPara: the separator is a single line break.
AppendParaSingleLF(chunk, para) == chunk \o <<LF>> \o para

\* currentChunk + '\n\n' + para (lines 367 and 373)
AppendPara(chunk, para) == chunk \o <<LF, LF>> \o para

\* (currentChunk + ' ' + para).split(/\s+/).length (line 364)
CombinedWordCount(chunk, para) == WordCount(chunk \o <<SP>> \o para)

\* Variant of FitsInChunk: the paragraph alone is counted.
FitsInChunkParaOnly(chunk, para) == WordCount(para) <= MaxWords

\* Variant of FitsInChunk: the comparison is strict.
FitsInChunkStrict(chunk, para) == CombinedWordCount(chunk, para) < MaxWords

\* combinedWordCount <= 150 (line 366)
FitsInChunk(chunk, para) == CombinedWordCount(chunk, para) <= MaxWords

\* Variant of LargeEnough: the length in characters is compared.
LargeEnoughByLength(chunk) == Len(chunk) >= MinWords

\* Variant of LargeEnough: the comparison is strict.
LargeEnoughStrict(chunk) == WordCount(chunk) > MinWords

\* currentChunk.split(/\s+/).length >= 50 (line 369)
LargeEnough(chunk) == WordCount(chunk) >= MinWords

\* Variant of ReturnValue: no fallback to the input.
ReturnValueNoFallback(res, art) == res

\* Variant of ReturnValue: the fallback is the trimmed input.
ReturnValueTrimmed(res, art) == IF Len(res) > 0 THEN res ELSE <<Trim(art)>>

\* return result.length > 0 ? result : [article] (line 383)
ReturnValue(res, art) == IF Len(res) > 0 THEN res ELSE <<art>>

-----------------------------------------------------------------------------
(* Inputs. *)

\* All strings over Alphabet of length at most MaxLen.
ShortArticles == UNION {[1..n -> Alphabet] : n \in 0..MaxLen}

\* n words of the letter c, separated by single spaces.
Words(n, c) == [i \in 1..(2 * n - 1) |-> IF i % 2 = 1 THEN c ELSE SP]

\* Word counts on both sides of the two thresholds.
BlockSizes == {1, MinWords - 1, MinWords, MaxWords - MinWords, MaxWords + 1}

\* What stands between two blocks of a long input.
Separators == {<<LF, LF>>, <<SP, LF, LF, LF>>, <<CR, LF, CR, LF>>}

\* The letter of the k-th block.
Letter(k) == IF k % 2 = 1 THEN "a" ELSE "b"

\* The long input with blocks of the sizes sz, separated by the separators sp.
RECURSIVE Compose(_, _, _)
Compose(sz, sp, k) ==
    IF k = Len(sz)
    THEN Words(sz[k], Letter(k))
    ELSE Words(sz[k], Letter(k)) \o sp[k] \o Compose(sz, sp, k + 1)

LongArticles ==
    UNION {{Compose(sz, sp, 1) : sz \in [1..n -> BlockSizes],
                                 sp \in [1..(n - 1) -> Separators]} : n \in 1..MaxParas}

\* Inputs with whitespace other than blanks and line ends.
SpaceArticles == UNION {[1..n -> {"a", LF, FF, NBSP}] : n \in 0..SpaceLen}

Articles == ShortArticles \cup LongArticles \cup SpaceArticles

\* The long inputs of the specification of repeated invocations.
RepeatedLong ==
    {Compose(sz, <<<<LF, LF>>>>, 1) :
        sz \in {<<1, MaxWords + 1>>, <<MinWords, MaxWords - MinWords + 1>>}}

\* The inputs of the specification of repeated invocations.
RepeatedArticles ==
    {<<>>, <<SP>>, <<"a">>, <<"a", LF, LF, "a">>} \cup RepeatedLong

\* The inputs of the specification with fairness.
LiveArticles ==
    UNION {[1..n -> Alphabet] : n \in 0..LiveLen}
        \cup RepeatedLong
        \cup {Compose(<<1, MaxWords + 1, 1>>, <<<<LF, LF>>, <<LF, LF>>>>, 1)}

-----------------------------------------------------------------------------
(* The function body. *)

\* Entry of splitIntoParagraphs with an argument from the set S.
ChunkStart(S) ==
    /\ article \in S
    /\ pc = "start"
    /\ naturalParagraphs = <<>>
    /\ idx = 1
    /\ result = <<>>
    /\ currentChunk = <<>>
    /\ returned = <<>>
    /\ calls = <<>>

Init == ChunkStart(Articles) /\ OutsideIdle

\* Variant of Split: result is not created anew by the invocation.
SplitSharedResult ==
    /\ pc = "start"
    /\ naturalParagraphs' = NaturalParagraphs(article)
    /\ currentChunk' = <<>>
    /\ idx' = 1
    /\ pc' = "loop"
    /\ UNCHANGED <<article, result, returned, calls>>
    /\ UNCHANGED outside

\* Lines 352-358: the natural paragraphs, the empty result and accumulator.
Split ==
    /\ pc = "start"
    /\ naturalParagraphs' = NaturalParagraphs(article)
    /\ result' = <<>>
    /\ currentChunk' = <<>>
    /\ idx' = 1
    /\ pc' = "loop"
    /\ UNCHANGED <<article, returned, calls>>
    /\ UNCHANGED outside

InLoop == pc = "loop" /\ idx <= Len(naturalParagraphs)

para == naturalParagraphs[idx]

\* Lines 361-362: the first paragraph seeds the accumulator.
Seed ==
    /\ InLoop
    /\ currentChunk = <<>>
    /\ currentChunk' = para
    /\ idx' = idx + 1
    /\ UNCHANGED <<article, pc, naturalParagraphs, result, returned, calls>>
    /\ UNCHANGED outside

\* Variant of Merge: the iterator does not advance.
MergeStays ==
    /\ InLoop
    /\ currentChunk # <<>>
    /\ FitsInChunk(currentChunk, para)
    /\ currentChunk' = AppendPara(currentChunk, para)
    /\ UNCHANGED <<article, pc, naturalParagraphs, idx, result, returned, calls>>
    /\ UNCHANGED outside

\* Lines 364-367: the paragraph fits.
Merge ==
    /\ InLoop
    /\ currentChunk # <<>>
    /\ FitsInChunk(currentChunk, para)
    /\ currentChunk' = AppendPara(currentChunk, para)
    /\ idx' = idx + 1
    /\ UNCHANGED <<article, pc, naturalParagraphs, result, returned, calls>>
    /\ UNCHANGED outside

\* Variant of Flush: the accumulator is pushed but not reset.
FlushKeepsAccumulating ==
    /\ InLoop
    /\ currentChunk # <<>>
    /\ ~FitsInChunk(currentChunk, para)
    /\ LargeEnough(currentChunk)
    /\ result' = Append(result, currentChunk)
    /\ currentChunk' = AppendPara(currentChunk, para)
    /\ idx' = idx + 1
    /\ UNCHANGED <<article, pc, naturalParagraphs, returned, calls>>
    /\ UNCHANGED outside

\* Lines 368-371: the paragraph does not fit and the accumulator can stand alone.
Flush ==
    /\ InLoop
    /\ currentChunk # <<>>
    /\ ~FitsInChunk(currentChunk, para)
    /\ LargeEnough(currentChunk)
    /\ result' = Append(result, currentChunk)
    /\ currentChunk' = para
    /\ idx' = idx + 1
    /\ UNCHANGED <<article, pc, naturalParagraphs, returned, calls>>
    /\ UNCHANGED outside

\* Variant of Overshoot: the small accumulator is pushed as a chunk.
OvershootFlushes ==
    /\ InLoop
    /\ currentChunk # <<>>
    /\ ~FitsInChunk(currentChunk, para)
    /\ ~LargeEnough(currentChunk)
    /\ result' = Append(result, currentChunk)
    /\ currentChunk' = para
    /\ idx' = idx + 1
    /\ UNCHANGED <<article, pc, naturalParagraphs, returned, calls>>
    /\ UNCHANGED outside

\* Lines 372-374: the paragraph does not fit and the accumulator is too small.
Overshoot ==
    /\ InLoop
    /\ currentChunk # <<>>
    /\ ~FitsInChunk(currentChunk, para)
    /\ ~LargeEnough(currentChunk)
    /\ currentChunk' = AppendPara(currentChunk, para)
    /\ idx' = idx + 1
    /\ UNCHANGED <<article, pc, naturalParagraphs, result, returned, calls>>
    /\ UNCHANGED outside

\* Variant of PushLast: the accumulator is pushed even when it is empty.
PushLastUnguarded ==
    /\ pc = "loop"
    /\ idx > Len(naturalParagraphs)
    /\ result' = Append(result, currentChunk)
    /\ pc' = "return"
    /\ UNCHANGED <<article, naturalParagraphs, idx, currentChunk, returned, calls>>
    /\ UNCHANGED outside

\* Lines 379-381: after the loop, a non-empty accumulator is the last chunk.
PushLast ==
    /\ pc = "loop"
    /\ idx > Len(naturalParagraphs)
    /\ result' = IF currentChunk # <<>> THEN Append(result, currentChunk) ELSE result
    /\ pc' = "return"
    /\ UNCHANGED <<article, naturalParagraphs, idx, currentChunk, returned, calls>>
    /\ UNCHANGED outside

\* Line 383.
Return ==
    /\ pc = "return"
    /\ returned' = ReturnValue(result, article)
    /\ calls' = Append(calls, <<article, returned'>>)
    /\ pc' = "done"
    /\ UNCHANGED <<article, naturalParagraphs, idx, result, currentChunk>>
    /\ UNCHANGED outside

Next == Split \/ Seed \/ Merge \/ Flush \/ Overshoot \/ PushLast \/ Return

Spec == Init /\ [][Next]_vars

\* The function body is synchronous code: a step that can be taken is taken.
LiveInit == ChunkStart(LiveArticles) /\ OutsideIdle

LiveSpec == LiveInit /\ [][Next]_vars /\ WF_vars(Next)

\* A further invocation, after the previous one returned.  The locals of the
\* new invocation hold no defined value until the body assigns them.
Invoke ==
    /\ pc = "done"
    /\ Len(calls) < MaxCalls
    /\ article' \in RepeatedArticles
    /\ pc' = "start"
    /\ UNCHANGED <<naturalParagraphs, idx, result, currentChunk, returned, calls>>
    /\ UNCHANGED outside

RepeatedInit == ChunkStart(RepeatedArticles) /\ OutsideIdle

RepeatedNext ==
    \/ Split \/ Seed \/ Merge \/ Flush \/ Overshoot \/ PushLast \/ Return
    \/ Invoke

\* Invocations of splitIntoParagraphs one after another.
RepeatedSpec == RepeatedInit /\ [][RepeatedNext]_vars

\* The loop of lines 360-381 as a function of the paragraphs ps from index k,
\* the chunks res pushed so far and the accumulator cur.
RECURSIVE ChunkLoop(_, _, _, _)
ChunkLoop(ps, k, res, cur) ==
    IF k > Len(ps) THEN (IF cur # <<>> THEN Append(res, cur) ELSE res)
    ELSE IF cur = <<>> THEN ChunkLoop(ps, k + 1, res, ps[k])
    ELSE IF FitsInChunk(cur, ps[k])
         THEN ChunkLoop(ps, k + 1, res, AppendPara(cur, ps[k]))
    ELSE IF LargeEnough(cur) THEN ChunkLoop(ps, k + 1, Append(res, cur), ps[k])
    ELSE ChunkLoop(ps, k + 1, res, AppendPara(cur, ps[k]))

\* splitIntoParagraphs(article) as a function of its argument.
SplitIntoParagraphs(s) ==
    ReturnValue(ChunkLoop(NaturalParagraphs(s), 1, <<>>, <<>>), s)


-----------------------------------------------------------------------------
(* Utils.debounce (lines 12-18).                                           *)
(*                                                                         *)
(* setTimeout(callback, delay) runs the callback once, in a turn of its    *)
(* own, not before delay has elapsed and possibly later; clearTimeout(id)  *)
(* keeps a callback that has not run from running, and does nothing for an *)
(* id that is undefined or whose callback has run.                         *)
(*                                                                         *)
(* A timer is kept with the time elapsed since it was set, counted up to   *)
(* Delay: from then on the timer is due, and more time changes nothing.    *)
(* The count stops when the timer is cleared or its callback runs.         *)

\* The arguments the debounced function is called with.
Arguments == {"x", "y"}

\* Variant of ClearTimeout: nothing is cleared.
ClearTimeoutNothing(ts, id) == ts

\* clearTimeout(timeoutId) (line 15)
ClearTimeout(ts, id) ==
    IF id # 0 /\ ts[id].st = "pending"
    THEN [ts EXCEPT ![id].st = "cleared"]
    ELSE ts

\* The time since the call before, counted up to Delay; Delay for the first
\* call.
SinceLastCall ==
    IF timers = <<>> THEN Delay ELSE timers[Len(timers)].elapsed

\* The function that Utils.debounce returns, called with the arguments args
\* (lines 14-17); gap records how long after the call before.
DebouncedFunction(args) ==
    /\ Len(timers) < MaxWrapperCalls
    /\ timers' = Append(ClearTimeout(timers, timeoutId),
                        [elapsed |-> 0, gap |-> SinceLastCall,
                         args |-> args, st |-> "pending"])
    /\ timeoutId' = Len(timers) + 1
    /\ UNCHANGED invoked

\* A call of the debounced function on its own: nothing but the closure and
\* its timers changes.
Debounced(args) ==
    /\ DebouncedFunction(args)
    /\ UNCHANGED notDebounce

\* The callback of the timer k runs: fn.apply(this, args) (line 16).
TimerFires(k) ==
    /\ timers[k].st = "pending"
    /\ timers[k].elapsed >= Delay
    /\ timers' = [timers EXCEPT ![k].st = "fired"]
    /\ invoked' = Append(invoked, [elapsed |-> timers[k].elapsed,
                                   args |-> timers[k].args,
                                   timer |-> k, calls |-> Len(timers)])
    /\ UNCHANGED timeoutId
    /\ UNCHANGED notDebounce

\* A timer that is not yet due.
Waiting(t) == t.st = "pending" /\ t.elapsed < Delay

\* One unit of time passes.
Tick ==
    /\ \E k \in 1..Len(timers) : Waiting(timers[k])
    /\ timers' = [k \in 1..Len(timers) |->
                      IF Waiting(timers[k])
                      THEN [timers[k] EXCEPT !.elapsed = @ + 1]
                      ELSE timers[k]]
    /\ UNCHANGED <<timeoutId, invoked>>
    /\ UNCHANGED notDebounce

Call == \E args \in Arguments : Debounced(args)

Fire == \E k \in 1..Len(timers) : TimerFires(k)

DebounceInit == PageLoaded

DebounceNext == Call \/ Fire \/ Tick

\* Time passes, and a timer that is due and not cleared runs in the end.
DebounceSpec ==
    DebounceInit /\ [][DebounceNext]_vars /\ WF_vars(Tick) /\ WF_vars(Fire)

-----------------------------------------------------------------------------
(* App.processArticle and API.processArticle. *)

\* The values the user gives the article input.
InputValues ==
    {<<SP, LF>>,
     Compose(<<MinWords, MaxWords - MinWords + 1>>, <<<<LF, LF>>>>, 1)}

\* The values the user gives the URL input.
UrlValues == {<<SP>>, <<SP, "u">>}

\* The content the backend finds at a URL.
UrlContent == <<"b", SP>>

\* String(undefined), what the value of a textarea becomes when undefined is
\* assigned to it.
UndefinedText == <<"u", "n", "d", "e", "f", "i", "n", "e", "d">>

\* splitIntoParagraphs on the articles a run can be started with, computed
\* once for each.
SplitTable ==
    [a \in {Trim(value) : value \in InputValues \cup {UrlContent, UndefinedText}}
        |-> SplitIntoParagraphs(a)]

\* How the backend answers a request: with the content asked for, with a
\* JSON object that lacks the fields the page reads, or with a failure (a
\* network error or a status that is not OK, on which API.request throws).
Outcomes == {"ok", "bad", "fail"}

\* this.request('/fetch-url', { url }) (line 290)
FetchUrlRequest(url) ==
    [run |-> 0, endpoint |-> "/fetch-url", text |-> url, index |-> 0]

\* this.request('/generate-summary', { article }) (line 299)
SummaryRequest(r, a) ==
    [run |-> r, endpoint |-> "/generate-summary", text |-> a, index |-> 0]

\* Variant of ParagraphRequest: the index is the loop counter i.
ParagraphRequestFromZero(r, ps, k) ==
    [run |-> r, endpoint |-> "/generate-paragraph-content",
     text |-> ps[k], index |-> k - 1]

\* this.generateParagraphContent(paragraphs[i], i + 1) (lines 309 and 336),
\* for k = i + 1
ParagraphRequest(r, ps, k) ==
    [run |-> r, endpoint |-> "/generate-paragraph-content",
     text |-> ps[k], index |-> k]

\* The body of the response to the request q.
Response(q, outcome) ==
    IF outcome = "ok" THEN [for |-> q.endpoint, text |-> q.text, index |-> q.index]
    ELSE EmptyObject

\* summaryResponse.summary (line 326)
SummaryField(resp) == IF resp = EmptyObject THEN Undefined ELSE resp

\* The request a run waits for.
Pending(run) == run.st \in {"summary", "chunk"}

\* The request that the run r last sent.
LastRequest(r) ==
    LET mine == SelectSeq(sent, LAMBDA q : q.run = r)
    IN  mine[Len(mine)]

\* Variant of ApiStep: a failed paragraph request is skipped.
ApiStepSkipsFailure(run, outcome, resp) ==
    IF run.st = "summary"
    THEN IF outcome = "fail" THEN [run EXCEPT !.st = "rejected"]
         ELSE [run EXCEPT !.st = "chunk",
                          !.summary = SummaryField(resp),
                          !.paragraphs = SplitTable[run.article]]
    ELSE LET done == Append(run.processed, resp)
         IN  [run EXCEPT !.processed = done,
                         !.st = IF Len(done) < Len(run.paragraphs)
                                THEN "chunk" ELSE "resolved"]

\* API.processArticle from one await to the next (lines 325-343): the run
\* after the response resp to its pending request.
ApiStep(run, outcome, resp) ==
    IF outcome = "fail" THEN [run EXCEPT !.st = "rejected"]
    ELSE IF run.st = "summary"
    THEN [run EXCEPT !.st = "chunk",
                     !.summary = SummaryField(resp),
                     !.paragraphs = SplitTable[run.article]]
    ELSE LET done == Append(run.processed, resp)
         IN  [run EXCEPT !.processed = done,
                         !.st = IF Len(done) < Len(run.paragraphs)
                                THEN "chunk" ELSE "resolved"]

\* The value API.processArticle resolves with (lines 340-343).
ResultsOf(run) == [summary |-> run.summary, paragraphs |-> run.processed]

\* renderResults does not throw: summary.split (line 652) and
\* para.questions.forEach (line 687) need the fields to be there.
Renderable(results) ==
    /\ results.summary # Undefined
    /\ \A k \in 1..Len(results.paragraphs) : results.paragraphs[k] # EmptyObject

\* Variant of AppSettles: isProcessing and the button are reset after a
\* success only.
AppSettlesNoFinally(run) ==
    /\ currentResults' = IF run.st = "resolved" THEN ResultsOf(run) ELSE currentResults
    /\ view' = IF run.st = "resolved" /\ Renderable(ResultsOf(run))
               THEN "results" ELSE "error"
    /\ isProcessing' = IF run.st = "resolved" THEN FALSE ELSE isProcessing
    /\ btnDisabled' = IF run.st = "resolved" THEN FALSE ELSE btnDisabled
    /\ UNCHANGED <<lastClick, articleInput, fetchUrlBtnDisabled>>

\* App.processArticle after the await (lines 602-614), for the run as
\* API.processArticle left it.
AppSettles(run) ==
    /\ currentResults' = IF run.st = "resolved" THEN ResultsOf(run) ELSE currentResults
    /\ view' = IF run.st = "resolved" /\ Renderable(ResultsOf(run))
               THEN "results" ELSE "error"
    /\ isProcessing' = FALSE
    /\ btnDisabled' = FALSE
    /\ UNCHANGED <<lastClick, articleInput, fetchUrlBtnDisabled>>

\* The runs started so far.
Started == {r \in 1..MaxRuns : runs[r].st # "unused"}

\* Variant of ClickProcess: without the test of isProcessing.
ClickProcessUnguarded ==
    LET a == Trim(articleInput)
        r == Cardinality(Started) + 1
    IN  /\ pc = "idle"
        /\ IF a = <<>>
           THEN lastClick' = "empty"
                /\ UNCHANGED <<isProcessing, currentResults, view, btnDisabled, apiVars>>
           ELSE /\ r <= MaxRuns
                /\ isProcessing' = TRUE
                /\ view' = "loading"
                /\ btnDisabled' = TRUE
                /\ runs' = [runs EXCEPT ![r] = [NoRun EXCEPT !.st = "summary",
                                                             !.article = a]]
                /\ sent' = Append(sent, SummaryRequest(r, a))
                /\ lastClick' = "run"
                /\ UNCHANGED currentResults
        /\ UNCHANGED <<articleInput, fetchUrlBtnDisabled>>
        /\ UNCHANGED notApp

\* A click on the process button or the retry button (lines 477 and 480):
\* App.processArticle up to its await (lines 583-598) and API.processArticle
\* up to its first await (lines 324-325).
ClickProcess ==
    LET a == Trim(articleInput)
        r == Cardinality(Started) + 1
    IN  /\ pc = "idle"
        /\ IF a = <<>>
           THEN lastClick' = "empty"
                /\ UNCHANGED <<isProcessing, currentResults, view, btnDisabled, apiVars>>
           ELSE IF isProcessing
           THEN lastClick' = "busy"
                /\ UNCHANGED <<isProcessing, currentResults, view, btnDisabled, apiVars>>
           ELSE /\ r <= MaxRuns
                /\ isProcessing' = TRUE
                /\ view' = "loading"
                /\ btnDisabled' = TRUE
                /\ runs' = [runs EXCEPT ![r] = [NoRun EXCEPT !.st = "summary",
                                                             !.article = a]]
                /\ sent' = Append(sent, SummaryRequest(r, a))
                /\ lastClick' = "run"
                /\ UNCHANGED currentResults
        /\ UNCHANGED <<articleInput, fetchUrlBtnDisabled>>
        /\ UNCHANGED notApp

\* The speak button of the summary card, which is part of the page as
\* loaded (lines 497-503); the other speak buttons are those of the
\* paragraph cards (lines 738-806).
SummaryButton == 1

\* App.renderResults (lines 630-645) on the speak buttons. It is called for
\* a run that resolved (line 603); renderSummary (line 634) throws for a
\* summary that is undefined, and otherwise replaces the text of the summary
\* only; then the container of the paragraph cards is emptied (line 637) and
\* the cards are created anew, so that no button of a card has the class
\* 'speaking', and the card buttons that the handlers of the utterances hold
\* (button 0) are no longer on the page. The button of the summary card
\* stays as it is.
RenderResults(run) ==
    IF run.st = "resolved" /\ run.summary # Undefined
    THEN /\ speakingButtons' = speakingButtons \cap {SummaryButton}
         /\ utterances' = [u \in DOMAIN utterances |->
                               IF utterances[u].button = SummaryButton
                               THEN utterances[u]
                               ELSE [utterances[u] EXCEPT !.button = 0]]
         /\ UNCHANGED currentUtterance
    ELSE UNCHANGED ttsVars

\* The backend answers the pending request of the run r: API.request returns
\* or throws (lines 260-282), API.processArticle continues to its next await
\* or to its end, with its invocation of splitIntoParagraphs after the
\* summary (line 330), and then App.processArticle continues after its
\* await.
Respond(r, outcome) ==
    /\ pc = "idle"
    /\ Pending(runs[r])
    /\ LET new == ApiStep(runs[r], outcome, Response(LastRequest(r), outcome))
       IN  /\ runs' = [runs EXCEPT ![r] = new]
           /\ calls' = IF runs[r].st = "summary" /\ new.st # "rejected"
                       THEN Append(calls, <<runs[r].article, new.paragraphs>>)
                       ELSE calls
           /\ IF Pending(new)
              THEN /\ sent' = Append(sent, ParagraphRequest(r, new.paragraphs,
                                                            Len(new.processed) + 1))
                   /\ UNCHANGED appVars
                   /\ UNCHANGED ttsVars
              ELSE /\ sent' = sent
                   /\ AppSettles(new)
                   /\ RenderResults(new)
    /\ UNCHANGED <<article, pc, naturalParagraphs, idx, result, currentChunk,
                   returned>>
    /\ UNCHANGED <<fetchVars, debounceVars>>

\* The argument of the listener of the input event.
InputEvent == "input"

\* The user edits the article input: the value changes and the input event
\* runs its listener, the debounced function of lines 468-471.
TypeArticle(value) ==
    /\ pc = "idle"
    /\ articleInput' = value
    /\ Len(timers) < MaxEdits
    /\ DebouncedFunction(InputEvent)
    /\ UNCHANGED <<isProcessing, currentResults, view, btnDisabled, lastClick,
                   fetchUrlBtnDisabled, apiVars>>
    /\ UNCHANGED <<chunkVars, ttsVars, fetchVars>>

\* The retrievals from a URL started so far.
UrlFetches == Len(SelectSeq(sent, LAMBDA q : q.endpoint = "/fetch-url"))

\* A click on the fetch button (line 474) with url in the URL input:
\* App.fetchUrl up to its await (lines 551-563). A disabled button gets no
\* click.
ClickFetchUrl(url) ==
    /\ pc = "idle"
    /\ ~fetchUrlBtnDisabled
    /\ IF Trim(url) = <<>>
       THEN UNCHANGED <<fetchUrlBtnDisabled, sent>>
       ELSE /\ UrlFetches < MaxUrlFetches
            /\ fetchUrlBtnDisabled' = TRUE
            /\ sent' = Append(sent, FetchUrlRequest(Trim(url)))
    /\ UNCHANGED <<isProcessing, currentResults, view, btnDisabled, lastClick,
                   articleInput, runs>>
    /\ UNCHANGED notApp

\* The backend answers the /fetch-url request: App.fetchUrl after its await
\* (lines 564-576). With a response without content, undefined is assigned
\* to the value of the article input.
FetchUrlSettles(outcome) ==
    /\ pc = "idle"
    /\ fetchUrlBtnDisabled
    /\ articleInput' = IF outcome = "ok" THEN UrlContent
                       ELSE IF outcome = "bad" THEN UndefinedText
                       ELSE articleInput
    /\ fetchUrlBtnDisabled' = FALSE
    /\ UNCHANGED <<isProcessing, currentResults, view, btnDisabled, lastClick,
                   apiVars>>
    /\ UNCHANGED notApp

Type == \E value \in InputValues \cup {<<>>} : TypeArticle(value)

Click == ClickProcess

FetchClick == \E url \in UrlValues : ClickFetchUrl(url)

FetchAnswer == \E outcome \in Outcomes : FetchUrlSettles(outcome)

Answer == \E r \in 1..MaxRuns, outcome \in Outcomes : Respond(r, outcome)

AppInit == PageLoaded

AppNext == Type \/ Click \/ Answer \/ FetchClick \/ FetchAnswer \/ Fire \/ Tick

AppSpec == AppInit /\ [][AppNext]_vars

\* Every request is answered or fails in the end.
AppLiveSpec == AppInit /\ [][AppNext]_vars /\ WF_vars(Answer)

-----------------------------------------------------------------------------
(* The speak buttons: App.speak, TTS.speak, TTS.stop (tts.js).             *)
(*                                                                         *)
(* window.speechSynthesis: speak(u) on an empty queue starts speaking u;   *)
(* cancel() stops the utterance being spoken at once, and the end or error *)
(* event of that utterance is dispatched later, in a turn of its own; an   *)
(* utterance that ends by itself gets its end or error event when it       *)
(* stops.                                                                  *)

Buttons == 1..NumButtons

\* this.synth.speaking (tts.js, line 224)
SynthSpeaking == \E u \in 1..MaxUtterances : utterances[u].st = "speaking"

\* this.synth.cancel() (tts.js, line 185)
SynthCancel(us) ==
    [u \in DOMAIN us |->
        IF us[u].st = "speaking" THEN [us[u] EXCEPT !.st = "cancelled"] ELSE us[u]]

\* The utterances after TTS.stop (tts.js, lines 183-188); it also sets
\* currentUtterance to null.
TtsStop(us) == IF SynthSpeaking THEN SynthCancel(us) ELSE us

\* The utterances created so far.
Created == {u \in 1..MaxUtterances : utterances[u].st # "unused"}

\* utterance.onend and utterance.onerror of the utterance u (tts.js, lines
\* 162-171), with the onEnd that App.speak passes (utils.js, lines 843-845).
UtteranceHandler(u) ==
    /\ currentUtterance' = 0
    /\ speakingButtons' = speakingButtons \ {utterances[u].button}

\* A click on the speak button b: App.speak (utils.js, lines 825-846) with
\* TTS.stop and TTS.speak (tts.js, lines 136-188); the button of the summary
\* card calls it through App.speakElement (utils.js, lines 853-856).
ClickSpeak(b) ==
    /\ IF SynthSpeaking /\ b \in speakingButtons
       THEN /\ utterances' = TtsStop(utterances)
            /\ currentUtterance' = 0
            /\ speakingButtons' = speakingButtons \ {b}
       ELSE LET u == Cardinality(Created) + 1
            IN  /\ u <= MaxUtterances
                /\ utterances' = [TtsStop(utterances) EXCEPT
                                      ![u] = [st |-> "speaking", button |-> b]]
                /\ currentUtterance' = u
                /\ speakingButtons' = {b}
    /\ UNCHANGED notTts

\* The utterance u ends by itself or fails while it is spoken: its end or
\* error event.
UtteranceEnds(u) ==
    /\ utterances[u].st = "speaking"
    /\ utterances' = [utterances EXCEPT ![u].st = "done"]
    /\ UtteranceHandler(u)
    /\ UNCHANGED notTts

\* The end or error event of the cancelled utterance u is dispatched.
CancelledEvent(u) ==
    /\ utterances[u].st = "cancelled"
    /\ utterances' = [utterances EXCEPT ![u].st = "done"]
    /\ UtteranceHandler(u)
    /\ UNCHANGED notTts

TtsInit == PageLoaded

TtsNext ==
    \/ \E b \in Buttons : ClickSpeak(b)
    \/ \E u \in 1..MaxUtterances : UtteranceEnds(u)
    \/ \E u \in 1..MaxUtterances : CancelledEvent(u)

TtsSpec == TtsInit /\ [][TtsNext]_vars

-----------------------------------------------------------------------------
(* Utils.fetchArticleFromURL (lines 106-159). *)

\* .replace(/\s+/g, ' ') (line 168): a blank for every run of whitespace
CollapseWhitespace(s) ==
    LET mark == [i \in 1..Len(s) |->
                    IF ~IsWhitespace(s[i]) THEN s[i]
                    ELSE IF i = 1 \/ ~IsWhitespace(s[i - 1]) THEN SP
                    ELSE ""]
    IN  SelectSeq(mark, LAMBDA c : c # "")

\* The last index in from..to where s holds a line feed (0 when none does).
LastLF(s, from, to) ==
    LET at == {j \in from..to : s[j] = LF}
    IN  IF at = {} THEN 0 ELSE CHOOSE j \in at : \A k \in at : k <= j

\* Where a match of /\n\s*\n/ that starts at the line feed at i ends: \s*
\* takes the whitespace that follows up to the last line feed in it (0 when
\* there is no match at i).
BreakEnd(s, i) == LastLF(s, i + 1, SkipLeading(s, i + 1) - 1)

\* .replace(/\n\s*\n/g, '\n\n') (line 169), from the index from on
RECURSIVE BreaksFrom(_, _)
BreaksFrom(s, from) ==
    LET starts == {i \in from..Len(s) : s[i] = LF /\ BreakEnd(s, i) # 0}
    IN  IF starts = {}
        THEN SubSeq(s, from, Len(s))
        ELSE SubSeq(s, from, Min(starts) - 1) \o <<LF, LF>>
                 \o BreaksFrom(s, BreakEnd(s, Min(starts)) + 1)

\* Utils.cleanExtractedText (lines 166-171)
CleanExtractedText(text) == Trim(BreaksFrom(CollapseWhitespace(text), 1))

\* What doc.querySelector(selector) finds: no element, or one with a text.
NoElement == [present |-> FALSE, textContent |-> <<>>]
Element(text) == [present |-> TRUE, textContent |-> text]

\* The text that fetchArticleFromURL returns for the parsed document doc
\* (lines 141-150).
ExtractText(doc) ==
    LET hits == {k \in 1..NumSelectors :
                    /\ doc.elements[k].present
                    /\ Len(Trim(doc.elements[k].textContent)) > MinContentLength}
    IN  IF hits # {}
        THEN CleanExtractedText(doc.elements[Min(hits)].textContent)
        ELSE CleanExtractedText(doc.body)

\* Texts of elements: of 100 characters when trimmed, and of more.
ShortText == <<LF, SP>> \o Words(MinContentLength \div 2, "a") \o <<"a", SP>>
LongText(c) ==
    <<LF>> \o Words(MinContentLength \div 4 + 1, c) \o <<LF, SP, LF>>
           \o Words(MinContentLength \div 4, c) \o <<SP, LF>>

\* The documents a proxy answers with: an element for 'article' or not, one
\* for 'main' or not, and text of the body outside them or not.
Documents ==
    {[elements |-> [k \in 1..NumSelectors |->
                       IF k = 1 THEN e1 ELSE IF k = 7 THEN e7 ELSE NoElement],
      body |-> e1.textContent \o e7.textContent \o rest] :
        e1 \in {NoElement, Element(ShortText), Element(LongText("a"))},
        e7 \in {NoElement, Element(LongText("b"))},
        rest \in {<<>>, <<SP, "c", LF, LF, LF, "c", SP>>}}

\* A document that was not received.
NoDocument == [elements |-> [k \in 1..NumSelectors |-> NoElement], body |-> <<>>]

\* The request to the proxy i, not yet answered.
Attempt(i) == [proxy |-> i, outcome |-> "pending", doc |-> NoDocument]

\* How a request to a proxy fails: fetch rejects, the response is not OK, or
\* its body is not JSON that can be used.
Failures == {"rejected", "notok", "unusable"}

\* Variant of ProxyFails: the failure is not caught.
ProxyFailsThrows(kind) ==
    /\ attempts' = [attempts EXCEPT ![Len(attempts)].outcome = kind]
    /\ fetchPc' = "thrown"
    /\ fetched' = Append(fetched, [threw |-> TRUE, error |-> "Error", text |-> <<>>])
    /\ UNCHANGED fetchResult

\* continue (lines 115 and 154), and the throw after the loop (line 158)
ProxyFails(kind) ==
    LET tried == [attempts EXCEPT ![Len(attempts)].outcome = kind]
    IN  IF Len(tried) < NumProxies
        THEN /\ attempts' = Append(tried, Attempt(Len(tried) + 1))
             /\ fetchPc' = "fetch"
             /\ UNCHANGED <<fetchResult, fetched>>
        ELSE /\ attempts' = tried
             /\ fetchPc' = "thrown"
             /\ fetched' = Append(fetched, [threw |-> TRUE, error |-> "Error",
                                            text |-> <<>>])
             /\ UNCHANGED fetchResult

\* A URL is a sequence of UTF-16 code units, of which it matters whether
\* each is a high surrogate (D800 to DBFF), a low surrogate (DC00 to DFFF)
\* or another code unit.
HighSurrogate == "hi"
LowSurrogate == "lo"
OtherUnit == "u"

\* The URLs the function is invoked with.
Urls == UNION {[1..n -> {OtherUnit, HighSurrogate, LowSurrogate}] : n \in 0..MaxUrlLen}

\* encodeURIComponent(url) (lines 109-110) throws a URIError when url holds a
\* surrogate that is not part of a pair.
EncodeThrows(url) ==
    \E i \in 1..Len(url) :
        \/ url[i] = HighSurrogate /\ (i = Len(url) \/ url[i + 1] # LowSurrogate)
        \/ url[i] = LowSurrogate /\ (i = 1 \/ url[i - 1] # HighSurrogate)

\* Utils.fetchArticleFromURL(url) up to its first await (lines 106-114): the
\* list of proxies is built outside the try, so that the URIError rejects
\* the invocation before a proxy is requested.
FetchArticle(url) ==
    /\ fetchPc \in {"idle", "returned", "thrown"}
    /\ Len(fetched) < MaxFetches
    /\ fetchResult' = <<>>
    /\ IF EncodeThrows(url)
       THEN /\ fetchPc' = "thrown"
            /\ attempts' = <<>>
            /\ fetched' = Append(fetched, [threw |-> TRUE, error |-> "URIError",
                                           text |-> <<>>])
       ELSE /\ fetchPc' = "fetch"
            /\ attempts' = <<Attempt(1)>>
            /\ UNCHANGED fetched
    /\ UNCHANGED notFetch

\* await fetch(proxyUrl) settles (lines 114-115).
ProxyResponds(outcome) ==
    /\ fetchPc = "fetch"
    /\ IF outcome = "ok"
       THEN /\ attempts' = [attempts EXCEPT ![Len(attempts)].outcome = "reading"]
            /\ fetchPc' = "json"
            /\ UNCHANGED <<fetchResult, fetched>>
       ELSE ProxyFails(outcome)
    /\ UNCHANGED notFetch

\* await response.json() settles with a body that cannot be used (line 117,
\* caught at line 152).
BodyUnusable ==
    /\ fetchPc = "json"
    /\ ProxyFails("unusable")
    /\ UNCHANGED notFetch

\* await response.json() settles with the document doc, and the text is
\* extracted and returned (lines 117-150).
BodyRead(doc) ==
    /\ fetchPc = "json"
    /\ attempts' = [attempts EXCEPT ![Len(attempts)].outcome = "ok",
                                    ![Len(attempts)].doc = doc]
    /\ fetchResult' = ExtractText(doc)
    /\ fetchPc' = "returned"
    /\ fetched' = Append(fetched, [threw |-> FALSE, error |-> "none",
                                   text |-> ExtractText(doc)])
    /\ UNCHANGED notFetch

FetchInit == PageLoaded

FetchNext ==
    \/ \E url \in Urls : FetchArticle(url)
    \/ \E outcome \in {"rejected", "notok", "ok"} : ProxyResponds(outcome)
    \/ BodyUnusable
    \/ \E doc \in Documents : BodyRead(doc)

FetchSpec == FetchInit /\ [][FetchNext]_vars

-----------------------------------------------------------------------------
(* The output against the natural paragraphs. *)

\* ps.join('\n\n')
RECURSIVE Join(_)
Join(ps) ==
    IF ps = <<>> THEN <<>>
    ELSE IF Len(ps) = 1 THEN ps[1]
    ELSE ps[1] \o <<LF, LF>> \o Join(Tail(ps))

\* The ways to cut paragraphs from..n into consecutive groups <<first, last>>,
\* one per set of cut positions.
RECURSIVE GroupsOf(_, _, _)
GroupsOf(cuts, from, n) ==
    IF cuts = {} THEN << <<from, n>> >>
    ELSE LET e == Min(cuts)
         IN  << <<from, e>> >> \o GroupsOf(cuts \ {e}, e + 1, n)

Groupings ==
    LET n == Len(naturalParagraphs)
    IN  IF n = 0 THEN {} ELSE {GroupsOf(cuts, 1, n) : cuts \in SUBSET (1..(n - 1))}

\* The text of the group g of natural paragraphs, as one chunk.
GroupText(g) == Join(SubSeq(naturalParagraphs, g[1], g[2]))

\* The chunks out are the groups gs, in order.
IsGrouping(gs, out) ==
    /\ Len(gs) = Len(out)
    /\ \A k \in 1..Len(out) : out[k] = GroupText(gs[k])

HasGrouping == \E gs \in Groupings : IsGrouping(gs, returned)

Grouping == CHOOSE gs \in Groupings : IsGrouping(gs, returned)

AllWhitespace(s) == \A i \in 1..Len(s) : IsWhitespace(s[i])

Done == pc = "done"

-----------------------------------------------------------------------------
(* Claims. *)

\* C1: for every input string, the empty and the whitespace-only string
\* included, splitIntoParagraphs returns a sequence of at least one element.
C1_NonEmptyResult == Done => Len(returned) >= 1

C1_Witness == Done /\ article = <<>> /\ Len(returned) = 1

\* C2: when the input has a natural paragraph, the returned chunks joined by
\* the blank-line separator are the natural paragraphs joined by it, and the
\* chunks are consecutive groups of the natural paragraphs in source order:
\* each paragraph is in exactly one chunk, none dropped, repeated or moved.
C2_ChunksPartitionParagraphs ==
    (Done /\ naturalParagraphs # <<>>) =>
        /\ Join(returned) = Join(naturalParagraphs)
        /\ HasGrouping

C2_Witness ==
    /\ Done
    /\ Len(naturalParagraphs) = 3
    /\ Len(returned) = 2
    /\ returned[1] = naturalParagraphs[1] \o <<LF, LF>> \o naturalParagraphs[2]
    /\ returned[2] = naturalParagraphs[3]

\* C3: every returned chunk other than the last has at least 50 whitespace
\* tokens, or is a single natural paragraph of more than 150 tokens.
C3_NonLastChunkSize ==
    Done =>
        \A k \in 1..(Len(returned) - 1) :
            \/ WordCount(returned[k]) >= MinWords
            \/ /\ HasGrouping
               /\ Grouping[k][1] = Grouping[k][2]
               /\ WordCount(naturalParagraphs[Grouping[k][1]]) > MaxWords

C3_Witness ==
    /\ Done
    /\ Len(returned) >= 2
    /\ WordCount(returned[1]) = MinWords

\* C4: when the accumulator, which ends with paragraph P1, combined with the
\* next paragraph P2 has at most 150 tokens, P2 is appended to it with the
\* blank-line separator and nothing is pushed at that step; and in the
\* output, wherever a chunk ends between two adjacent paragraphs, that chunk
\* combined with the following paragraph has more than 150 tokens.
C4_MergeWhenFits ==
    /\ [][(/\ InLoop
           /\ currentChunk # <<>>
           /\ WordCount(currentChunk \o <<SP>> \o para) <= MaxWords)
          => (/\ currentChunk' = currentChunk \o <<LF, LF>> \o para
              /\ result' = result)]_vars
    /\ [](Done /\ naturalParagraphs # <<>> =>
            /\ HasGrouping
            /\ \A k \in 1..(Len(returned) - 1) :
                  WordCount(returned[k] \o <<SP>>
                            \o naturalParagraphs[Grouping[k + 1][1]]) > MaxWords)

C4_Witness ==
    /\ Done
    /\ Len(naturalParagraphs) = 2
    /\ WordCount(naturalParagraphs[1]) >= MinWords
    /\ WordCount(naturalParagraphs[1] \o <<SP>> \o naturalParagraphs[2]) = MaxWords
    /\ returned = <<naturalParagraphs[1] \o <<LF, LF>> \o naturalParagraphs[2]>>

\* C5 as stated: a natural paragraph of more than 150 tokens is the only
\* natural paragraph of the chunk that contains it.
C5_OversizedParagraphAlone ==
    (Done /\ naturalParagraphs # <<>>) =>
        /\ HasGrouping
        /\ \A k \in 1..Len(returned) :
              \A i \in Grouping[k][1]..Grouping[k][2] :
                  WordCount(naturalParagraphs[i]) > MaxWords
                      => Grouping[k][1] = Grouping[k][2]

\* C5 amended: a natural paragraph of more than 150 tokens is kept whole and
\* is the last natural paragraph of the chunk that contains it, and the
\* paragraphs before it in that chunk have fewer than 50 tokens together.
C5_OversizedParagraphClosesChunk ==
    (Done /\ naturalParagraphs # <<>>) =>
        /\ HasGrouping
        /\ \A k \in 1..Len(returned) :
              \A i \in Grouping[k][1]..Grouping[k][2] :
                  WordCount(naturalParagraphs[i]) > MaxWords
                      => /\ i = Grouping[k][2]
                         /\ i > Grouping[k][1]
                              => WordCount(GroupText(<<Grouping[k][1], i - 1>>)) < MinWords

C5_Witness ==
    /\ Done
    /\ Len(naturalParagraphs) = 2
    /\ WordCount(naturalParagraphs[1]) = MinWords - 1
    /\ WordCount(naturalParagraphs[2]) > MaxWords
    /\ returned = <<naturalParagraphs[1] \o <<LF, LF>> \o naturalParagraphs[2]>>

\* C6: when the input is empty or all whitespace, so that no natural
\* paragraph remains, the result is the one-element sequence holding the
\* input string itself, untrimmed.
C6_DegenerateReturnsInput ==
    (Done /\ (naturalParagraphs = <<>> \/ AllWhitespace(article)))
        => returned = <<article>>

C6_Witness ==
    /\ Done
    /\ AllWhitespace(article)
    /\ \E i \in 1..(Len(article) - 1) : article[i] = LF /\ article[i + 1] = LF
    /\ \E i \in 1..Len(article) : article[i] = SP
    /\ returned = <<article>>

\* An empty line inside s: a line end (LF) directly followed by another line
\* end (LF, or CR LF).
ContainsBlankLine(s) ==
    \E i \in 1..(Len(s) - 1) :
        /\ s[i] = LF
        /\ \/ s[i + 1] = LF
           \/ i + 2 <= Len(s) /\ s[i + 1] = CR /\ s[i + 2] = LF

\* Every line of s ends with LF alone.
LFLineEndings(s) == \A i \in 1..Len(s) : s[i] # CR

\* Every line of s ends with CR LF.
CRLFLineEndings(s) ==
    /\ \A i \in 1..Len(s) : s[i] = LF => i > 1 /\ s[i - 1] = CR
    /\ \A i \in 1..Len(s) : s[i] = CR => i < Len(s) /\ s[i + 1] = LF

\* C7: for inputs with LF line endings and inputs with CR LF line endings
\* alike, the input is split at every run of blank lines: no natural
\* paragraph contains a blank line, and none is empty.
C7_SplitAtBlankLines ==
    (pc # "start" /\ (LFLineEndings(article) \/ CRLFLineEndings(article))) =>
        \A k \in 1..Len(naturalParagraphs) :
            /\ naturalParagraphs[k] # <<>>
            /\ ~ContainsBlankLine(naturalParagraphs[k])

\* C8: when the accumulator combined with the next paragraph has more than
\* 150 tokens and the accumulator alone has at least 50, the accumulator is
\* pushed to the output as it is and becomes just the new paragraph.
C8_FlushRule ==
    [][(/\ InLoop
        /\ currentChunk # <<>>
        /\ WordCount(currentChunk \o <<SP>> \o para) > MaxWords
        /\ WordCount(currentChunk) >= MinWords)
       => (/\ result' = Append(result, currentChunk)
           /\ currentChunk' = para)]_vars

C8_Witness ==
    /\ pc = "loop"
    /\ idx = 3
    /\ WordCount(naturalParagraphs[1]) = MinWords
    /\ WordCount(naturalParagraphs[1] \o <<SP>> \o naturalParagraphs[2]) > MaxWords
    /\ result = <<naturalParagraphs[1]>>
    /\ currentChunk = naturalParagraphs[2]

\* C9: when the accumulator combined with the next paragraph has more than
\* 150 tokens and the accumulator alone has fewer than 50, the paragraph is
\* appended anyway and nothing is pushed at that step; so every chunk pushed
\* before the end of the input has at least 50 tokens.
C9_OvershootRule ==
    /\ [][(/\ InLoop
           /\ currentChunk # <<>>
           /\ WordCount(currentChunk \o <<SP>> \o para) > MaxWords
           /\ WordCount(currentChunk) < MinWords)
          => (/\ currentChunk' = currentChunk \o <<LF, LF>> \o para
              /\ result' = result)]_vars
    /\ [](pc = "loop" => \A k \in 1..Len(result) : WordCount(result[k]) >= MinWords)

C9_Witness ==
    /\ pc = "loop"
    /\ idx = 3
    /\ WordCount(naturalParagraphs[1]) < MinWords
    /\ WordCount(naturalParagraphs[2]) > MaxWords
    /\ result = <<>>
    /\ currentChunk = naturalParagraphs[1] \o <<LF, LF>> \o naturalParagraphs[2]

\* C10: when the input has a natural paragraph (a character that is not
\* whitespace), every returned chunk is a non-empty string; an empty or
\* all-whitespace element is returned only as the single element equal to
\* the input, when the input has no natural paragraph.
C10_ChunksNonEmpty ==
    Done =>
        /\ ~AllWhitespace(article) =>
              \A k \in 1..Len(returned) : returned[k] # <<>>
        /\ \A k \in 1..Len(returned) :
              AllWhitespace(returned[k]) =>
                  /\ AllWhitespace(article)
                  /\ returned = <<article>>

C10_Witness ==
    /\ Done
    /\ ~AllWhitespace(article)
    /\ Len(returned) >= 2
    /\ Len(Join(returned)) < Len(article)
    /\ \A k \in 1..Len(returned) : returned[k] # <<>>

\* The step model and the function agree (a check of the model).
StepsAgreeWithFunction == Done => returned = SplitIntoParagraphs(article)

\* C11: splitIntoParagraphs is deterministic and has no side effects: of the
\* invocations completed so far, any two with the same argument returned
\* equal sequences, whatever ran before or between them; and no step of an
\* invocation changes the state outside it (the fields of API, App and TTS).
C11_DeterministicNoSideEffects ==
    /\ [](\A i, j \in 1..Len(calls) :
            calls[i][1] = calls[j][1] => calls[i][2] = calls[j][2])
    /\ [][UNCHANGED outside]_vars

C11_Witness ==
    /\ Len(calls) = 3
    /\ calls[1][1] = calls[3][1]
    /\ calls[2][1] # calls[1][1]
    /\ Len(calls[1][2]) = 2
    /\ Len(calls[2][2]) = 1
    /\ calls[3][2] = calls[1][2]

\* C12: splitIntoParagraphs is total: every invocation reaches its return
\* with a result, no state before the return is stuck, and the loop is one
\* left-to-right pass: each step of it moves to the next natural paragraph,
\* and at the return every natural paragraph has been passed.
C12_TotalSinglePass ==
    /\ <>Done
    /\ [](Done \/ ENABLED Next)
    /\ [][InLoop => idx' = idx + 1]_vars
    /\ [](Done => idx = Len(naturalParagraphs) + 1 /\ Len(returned) >= 1)

C12_Witness ==
    /\ Done
    /\ Len(naturalParagraphs) = 3
    /\ idx = 4
    /\ Len(returned) = 2

\* C15: a returned chunk of more than 150 tokens is a single natural
\* paragraph, or its natural paragraphs but the last have fewer than 50
\* tokens together; and once the accumulator has more than 150 tokens the
\* next paragraph flushes it, so it does not grow further.
C15_OvershootBounded ==
    /\ [](Done /\ naturalParagraphs # <<>> =>
            /\ HasGrouping
            /\ \A k \in 1..Len(returned) :
                  WordCount(returned[k]) > MaxWords =>
                      \/ Grouping[k][1] = Grouping[k][2]
                      \/ WordCount(GroupText(<<Grouping[k][1], Grouping[k][2] - 1>>))
                            < MinWords)
    /\ [][(InLoop /\ WordCount(currentChunk) > MaxWords)
          => (/\ result' = Append(result, currentChunk)
              /\ currentChunk' = para)]_vars

C15_Witness ==
    /\ pc = "loop"
    /\ idx = 4
    /\ WordCount(naturalParagraphs[1]) < MinWords
    /\ result = <<naturalParagraphs[1] \o <<LF, LF>> \o naturalParagraphs[2]>>
    /\ WordCount(result[1]) > MaxWords
    /\ currentChunk = naturalParagraphs[3]

-----------------------------------------------------------------------------
(* The processing of an article. *)

\* The requests the run r has sent, in order.
RequestsOf(r) == SelectSeq(sent, LAMBDA q : q.run = r)

\* The runs that wait for a response.
InFlight == {r \in 1..MaxRuns : Pending(runs[r])}

\* The responses the run r has received, failures not counted.
Received(r) ==
    IF runs[r].st = "summary" THEN 0
    ELSE IF runs[r].st = "chunk" THEN 1 + Len(runs[r].processed)
    ELSE Len(RequestsOf(r)) - (IF runs[r].st = "rejected" THEN 1 ELSE 0)

\* C13: a run sends the summary request, then one content request per chunk
\* of splitIntoParagraphs(article), in chunker order, the i-th chunk with
\* index i; it sends a request only when every earlier one has been answered;
\* and the paragraphs it resolves with are the answers in that order.
C13_ChunksForwardedInOrder ==
    \A r \in Started :
        LET run == runs[r]
            mine == RequestsOf(r)
            chunks == SplitIntoParagraphs(run.article)
        IN  /\ Len(mine) >= 1
            /\ Len(mine) <= 1 + Len(chunks)
            /\ mine[1] = [run |-> r, endpoint |-> "/generate-summary",
                          text |-> run.article, index |-> 0]
            /\ \A i \in 1..(Len(mine) - 1) :
                   mine[i + 1] = [run |-> r,
                                  endpoint |-> "/generate-paragraph-content",
                                  text |-> chunks[i], index |-> i]
            /\ Len(mine) = Received(r) + (IF run.st = "resolved" THEN 0 ELSE 1)
            /\ run.st = "resolved" =>
                   /\ Len(mine) = 1 + Len(chunks)
                   /\ Len(run.processed) = Len(chunks)
                   /\ \A i \in 1..Len(chunks) :
                          run.processed[i] \in
                              {EmptyObject,
                               [for |-> "/generate-paragraph-content",
                                text |-> chunks[i], index |-> i]}

C13_Witness ==
    /\ runs[1].st = "resolved"
    /\ Len(runs[1].paragraphs) = 2
    /\ Len(RequestsOf(1)) = 3
    /\ \A i \in 1..2 : /\ runs[1].processed[i] # EmptyObject
                       /\ runs[1].processed[i].index = i
                       /\ runs[1].processed[i].text = runs[1].paragraphs[i]
    /\ runs[1].paragraphs[1] # runs[1].paragraphs[2]

\* C16: at most one run is in flight, isProcessing is true exactly while one
\* is, and a click while isProcessing is true starts no run and sends no
\* request.
C16_OneRunInFlight ==
    /\ [](Cardinality(InFlight) <= 1)
    /\ [](isProcessing <=> InFlight # {})
    /\ [][isProcessing => Started' = Started]_vars
    /\ [][(isProcessing /\ ClickProcess) => UNCHANGED <<runs, sent>>]_vars

C16_Witness ==
    /\ lastClick = "busy"
    /\ isProcessing
    /\ InFlight = {1}
    /\ Started = {1}
    /\ runs[1].st = "chunk"
    /\ Len(sent) = 2

\* C17: when requests are answered in the end, a run in flight leads to
\* isProcessing false, the button enabled and the view on results or error;
\* the step that ends a run shows results when the run resolved and was
\* rendered, and error otherwise; the view is never loading with no run in
\* flight.
C17_RunEnds ==
    /\ \A r \in 1..MaxRuns :
           Pending(runs[r]) ~>
               (/\ ~Pending(runs[r])
                /\ ~isProcessing
                /\ ~btnDisabled
                /\ view \in {"results", "error"})
    /\ [][\A r \in 1..MaxRuns :
              (Pending(runs[r]) /\ ~Pending(runs'[r])) =>
                  /\ ~isProcessing'
                  /\ ~btnDisabled'
                  /\ view' = IF /\ runs'[r].st = "resolved"
                                /\ runs'[r].summary # Undefined
                                /\ \A i \in 1..Len(runs'[r].processed) :
                                       runs'[r].processed[i] # EmptyObject
                             THEN "results" ELSE "error"]_vars
    /\ [](InFlight = {} => view # "loading" /\ ~btnDisabled /\ ~isProcessing)

C17_Witness ==
    /\ runs[1].st = "rejected"
    /\ runs[2].st = "resolved"
    /\ view = "results"
    /\ ~isProcessing
    /\ ~btnDisabled

\* C18: a step in which a request of a run fails rejects the run, sends no
\* request and leaves currentResults as it was; a rejected run sends nothing
\* later; and currentResults is null or the complete result of a resolved run.
C18_FailureRejectsRun ==
    /\ [][\A r \in 1..MaxRuns :
              Respond(r, "fail") =>
                  /\ runs'[r].st = "rejected"
                  /\ sent' = sent
                  /\ currentResults' = currentResults]_vars
    /\ [][\A r \in 1..MaxRuns :
              runs[r].st = "rejected" =>
                  /\ runs'[r] = runs[r]
                  /\ SelectSeq(sent', LAMBDA q : q.run = r) = RequestsOf(r)]_vars
    /\ [](currentResults # Null =>
              \E r \in 1..MaxRuns :
                  /\ runs[r].st = "resolved"
                  /\ currentResults = [summary |-> runs[r].summary,
                                       paragraphs |-> runs[r].processed]
                  /\ Len(currentResults.paragraphs)
                         = Len(SplitIntoParagraphs(runs[r].article)))

C18_Witness ==
    /\ runs[1].st = "resolved"
    /\ runs[2].st = "rejected"
    /\ Len(runs[2].paragraphs) = 2
    /\ Len(runs[2].processed) = 0
    /\ Len(RequestsOf(2)) = 2
    /\ currentResults = [summary |-> runs[1].summary, paragraphs |-> runs[1].processed]
    /\ view = "error"
    /\ ~isProcessing

-----------------------------------------------------------------------------
(* The speak buttons. *)

\* The utterances being spoken that the button b started.
SpokenFor(b) ==
    {u \in 1..MaxUtterances :
        utterances[u].st = "speaking" /\ utterances[u].button = b}

\* C14: a click on a speak button whose text is being spoken stops the
\* speech and starts nothing; a click on any other speak button starts the
\* text of that button.
C14_ClickTogglesSpeech ==
    [][\A b \in Buttons :
           ClickSpeak(b) =>
               IF SpokenFor(b) # {}
               THEN /\ \A u \in 1..MaxUtterances : utterances'[u].st # "speaking"
                    /\ \A u \in 1..MaxUtterances :
                           utterances[u].st = "unused" => utterances'[u].st = "unused"
               ELSE \E u \in 1..MaxUtterances :
                        /\ utterances[u].st = "unused"
                        /\ utterances'[u] = [st |-> "speaking", button |-> b]]_vars

\* C20: an utterance that is being spoken is TTS.currentUtterance.
C20_CurrentUtteranceIsSpoken ==
    \A u \in 1..MaxUtterances :
        utterances[u].st = "speaking" => currentUtterance = u

-----------------------------------------------------------------------------
(* The retrieval through proxies. *)

\* The invocation has thrown after every proxy of the list has failed.
EveryProxyFailed ==
    /\ Len(attempts) = NumProxies
    /\ \A k \in 1..Len(attempts) : attempts[k].outcome \in Failures

\* C19 as stated: the proxies are requested in list order, each after the
\* one before it has failed; the function returns exactly when a proxy has
\* answered with a usable body, with the text of that body and without a
\* later request; and it throws only when every proxy of the list has
\* failed.
C19_ThrowsOnlyAfterEveryProxy ==
    LET n == Len(attempts)
    IN  /\ n <= NumProxies
        /\ \A k \in 1..n : attempts[k].proxy = k
        /\ \A k \in 1..(n - 1) : attempts[k].outcome \in Failures
        /\ fetchPc = "returned" <=> (n >= 1 /\ attempts[n].outcome = "ok")
        /\ fetchPc = "returned" => fetchResult = ExtractText(attempts[n].doc)
        /\ fetchPc = "thrown" <=> EveryProxyFailed

\* C19, amended: the proxies are requested in list order, each after the
\* one before it has failed; the function returns exactly when a proxy has
\* answered with a usable body, with the text of that body and without a
\* later request; it throws the error of line 158 exactly when every proxy
\* of the list has failed; and it throws otherwise only the URIError of
\* encodeURIComponent, exactly for a URL with a surrogate that has no pair,
\* before any proxy is requested.
C19_ProxiesInOrder ==
    /\ [](LET n == Len(attempts)
          IN  /\ n <= NumProxies
              /\ \A k \in 1..n : attempts[k].proxy = k
              /\ \A k \in 1..(n - 1) : attempts[k].outcome \in Failures
              /\ fetchPc = "returned" <=> (n >= 1 /\ attempts[n].outcome = "ok")
              /\ fetchPc = "returned" => fetchResult = ExtractText(attempts[n].doc)
              /\ fetchPc = "thrown" =>
                     /\ fetched[Len(fetched)].threw
                     /\ fetched[Len(fetched)].error \in {"Error", "URIError"}
                     /\ fetched[Len(fetched)].error = "Error" <=> EveryProxyFailed
                     /\ fetched[Len(fetched)].error = "URIError" <=> n = 0
              /\ EveryProxyFailed => fetchPc = "thrown")
    /\ [][\A url \in Urls :
              FetchArticle(url) =>
                  IF EncodeThrows(url)
                  THEN fetchPc' = "thrown" /\ attempts' = <<>>
                  ELSE fetchPc' = "fetch" /\ attempts' = <<Attempt(1)>>]_vars

C19_Witness ==
    /\ fetchPc = "returned"
    /\ Len(attempts) = 2
    /\ attempts[1].outcome = "notok"
    /\ attempts[2].outcome = "ok"
    /\ Len(fetchResult) > MinContentLength
    /\ Len(fetched) = 2
    /\ fetched[1].error = "URIError"
    /\ fetched[2].text = fetchResult

-----------------------------------------------------------------------------
(* The debounced function. *)

\* The invocations of fn made for the k-th call of the debounced function.
InvokedFor(k) == {j \in 1..Len(invoked) : invoked[j].timer = k}


=============================================================================
